---- MODULE Spec2Model ----
(***************************************************************************)
(* A model of internal/chats/store.go: the per-session append-only chat    *)
(* log store (RecordMessage, ArchiveSession, ExportAll), together with the *)
(* direction classification of internal/server/chat.go.                    *)
(*                                                                         *)
(* Strings are sequences of code points (97 is 'a', 47 is '/', ...), file  *)
(* paths are sequences of components, and a file's content is a sequence   *)
(* of bytes-like tokens: a serialized record is a head token, a tail token *)
(* and a newline token, so that a short write or an unserialized writer    *)
(* can tear or merge records.                                              *)
(***************************************************************************)
EXTENDS Integers, Sequences, FiniteSets, TLC

VARIABLES
    store,       \* the *Store the callers hold: Nil or [rootDir]
    dirs,        \* the directories that exist under the root
    fs,          \* the log files: path -> content
    outDirs,     \* the directories created for export artifacts
    outFiles,    \* the export artifacts: path -> content
    mu,          \* Store.mu: 0 when free, else the holder
    clock,       \* the wall clock s.now() reads
    pc,          \* each caller's position
    loc,         \* each caller's arguments and locals
    ret,         \* the call that returned last, and its error
    callsLeft,   \* calls that may still be started
    exportsLeft, \* ExportAll calls that may still be started
    faultsLeft,  \* I/O failures that may still be injected
    hist         \* per log name, the messages of the RecordMessage calls
                 \* that returned nil, in the order they returned

vars == <<store, dirs, fs, outDirs, outFiles, mu, clock, pc, loc, ret,
          callsLeft, exportsLeft, faultsLeft, hist>>

(* ------------------------------ bounds ------------------------------- *)

\* concurrent callers of the store
NumProcs == 2
\* calls started in one behaviour
MaxCalls == 4
\* ExportAll calls among them
MaxExports == 1
\* injected I/O failures in one behaviour
MaxFaults == 1

Procs == 1..NumProcs

(* ------------------------------ strings ------------------------------ *)

\* A byte that is not valid UTF-8 (strings.Map decodes it as U+FFFD).
BadByte == 1114112
RuneError == 65533

ActiveName == <<97, 99, 116, 105, 118, 101>>
ArchivedName == <<97, 114, 99, 104, 105, 118, 101, 100>>
Suffix == <<46, 106, 115, 111, 110, 108>>

IsSpace(r) == r \in {9, 10, 11, 12, 13, 32, 133, 160}

RECURSIVE TrimLeft(_)
TrimLeft(s) ==
    IF s = <<>> THEN <<>>
    ELSE IF IsSpace(Head(s)) THEN TrimLeft(Tail(s)) ELSE s

RECURSIVE TrimRight(_)
TrimRight(s) ==
    IF s = <<>> THEN <<>>
    ELSE IF IsSpace(s[Len(s)]) THEN TrimRight(SubSeq(s, 1, Len(s) - 1)) ELSE s

\* The argument left as it is, white space included.
TrimSpaceSkipped(s) == s

TrimSpace(s) == TrimRight(TrimLeft(s))

HasSuffix(s, suf) ==
    /\ Len(s) >= Len(suf)
    /\ SubSeq(s, Len(s) - Len(suf) + 1, Len(s)) = suf

\* The file name kept whole as the session identifier.
TrimSuffixSkipped(s, suffix) == s

TrimSuffix(s, suf) ==
    IF HasSuffix(s, suf) THEN SubSeq(s, 1, Len(s) - Len(suf)) ELSE s

IsPrefix(s, t) == Len(s) <= Len(t) /\ SubSeq(t, 1, Len(s)) = s

\* Go's string comparison: bytewise, which for code points is lexicographic.
RECURSIVE StrLess(_, _)
StrLess(s, t) ==
    IF t = <<>> THEN FALSE
    ELSE IF s = <<>> THEN TRUE
    ELSE IF Head(s) # Head(t) THEN Head(s) < Head(t)
    ELSE StrLess(Tail(s), Tail(t))

(* ------------------------- sanitizer and paths ------------------------ *)

\* A sanitizer that puts '-' in place of what it does not allow.
sanitizeRuneHyphen(r) ==
    IF r >= 97 /\ r <= 122 THEN r
    ELSE IF r >= 65 /\ r <= 90 THEN r
    ELSE IF r >= 48 /\ r <= 57 THEN r
    ELSE IF r = 45 \/ r = 95 \/ r = 46 THEN r
    ELSE 45

\* A sanitizer that keeps every character.
sanitizeRuneIdentity(r) == r

\* A sanitizer that replaces the path separator and what is not ASCII only.
sanitizeRuneSeparatorOnly(r) == IF r < 128 /\ r # 47 THEN r ELSE 95

sanitizeRune(r) ==
    IF r >= 97 /\ r <= 122 THEN r
    ELSE IF r >= 65 /\ r <= 90 THEN r
    ELSE IF r >= 48 /\ r <= 57 THEN r
    ELSE IF r = 45 \/ r = 95 \/ r = 46 THEN r
    ELSE 95

sanitizeSessionID(sessionID) ==
    [i \in 1..Len(sessionID) |-> sanitizeRune(sessionID[i])]

\* The components of a slash-separated name.
RECURSIVE SplitPath(_, _)
SplitPath(s, cur) ==
    IF s = <<>> THEN <<cur>>
    ELSE IF Head(s) = 47 THEN <<cur>> \o SplitPath(Tail(s), <<>>)
    ELSE SplitPath(Tail(s), Append(cur, Head(s)))

\* filepath.Clean on components: drops "" and ".", resolves "..".
RECURSIVE Clean(_, _)
Clean(comps, acc) ==
    IF comps = <<>> THEN acc
    ELSE IF Head(comps) = <<>> \/ Head(comps) = <<46>> THEN Clean(Tail(comps), acc)
    ELSE IF Head(comps) = <<46, 46>>
         THEN Clean(Tail(comps),
                    IF acc = <<>> THEN <<>> ELSE SubSeq(acc, 1, Len(acc) - 1))
    ELSE Clean(Tail(comps), Append(acc, Head(comps)))

\* filepath.Join: the components of dir/name, cleaned (the one element of
\* the set below).
Join(dir, name) ==
    CHOOSE path \in {Clean(comps, <<>>) : comps \in {dir \o SplitPath(name, <<>>)}} : TRUE

statusDir(rootDir, archived) ==
    Join(<<rootDir>>, IF archived THEN ArchivedName ELSE ActiveName)

sessionPath(s, sessionID, archived) ==
    Join(statusDir(s.rootDir, archived), sanitizeSessionID(sessionID) \o Suffix)

ParentDir(path) == SubSeq(path, 1, Len(path) - 1)
BaseName(path) == path[Len(path)]

(* ------------------------------ messages ------------------------------ *)

DirectionRequest == "request"
DirectionNotification == "notification"
DirectionResponse == "response"

\* A payload is a JSON text, abstracted to what the code can tell apart:
\* whether it is valid JSON, whether it carries an "id" member, and whether
\* it holds insignificant whitespace.  NilPayload is a nil byte slice.
Payload(valid, id, ws) ==
    [valid |-> valid, id |-> id, ws |-> ws, null |-> FALSE, nil |-> FALSE]
NilPayload ==
    [valid |-> FALSE, id |-> FALSE, ws |-> FALSE, null |-> FALSE, nil |-> TRUE]
\* The JSON text null.
NullPayload ==
    [valid |-> TRUE, id |-> FALSE, ws |-> FALSE, null |-> TRUE, nil |-> FALSE]

\* json.Marshal of a json.RawMessage: nil becomes null, valid JSON is
\* compacted (insignificant whitespace removed), anything else is an error.
MarshalRaw(p) ==
    IF p = NilPayload THEN [ok |-> TRUE, raw |-> NullPayload]
    ELSE IF p.valid THEN [ok |-> TRUE, raw |-> [p EXCEPT !.ws = FALSE]]
    ELSE [ok |-> FALSE, raw |-> p]

\* json.Marshal of a string: invalid UTF-8 is replaced by U+FFFD.
MarshalString(s) == [i \in 1..Len(s) |-> IF s[i] = BadByte THEN RuneError ELSE s[i]]

NL == [part |-> "nl"]

\* json.Marshal(Message) followed by '\n', as the tokens written to the log.
\* The toolset member is omitted when empty (omitempty).
MarshalMessage(m) ==
    << [part |-> "head",
        sessionId |-> MarshalString(m.SessionID),
        toolset |-> IF m.Toolset = <<>> THEN <<>> ELSE <<MarshalString(m.Toolset)>>,
        direction |-> m.Direction],
       [part |-> "tail",
        timestamp |-> m.Timestamp,
        payload |-> MarshalRaw(m.Payload).raw],
       NL >>

\* bufio.ScanLines: the content split at newlines; a final line without a
\* newline is a line too, an empty rest is not.
RECURSIVE ScanLines(_, _)
ScanLines(content, cur) ==
    IF content = <<>> THEN (IF cur = <<>> THEN <<>> ELSE <<cur>>)
    ELSE IF Head(content) = NL THEN <<cur>> \o ScanLines(Tail(content), <<>>)
    ELSE ScanLines(Tail(content), Append(cur, Head(content)))

\* json.Unmarshal of one line into a Message.
WellFormedLine(line) ==
    /\ Len(line) = 2
    /\ line[1].part = "head"
    /\ line[2].part = "tail"

UnmarshalMessage(line) ==
    [SessionID |-> line[1].sessionId,
     Toolset |-> IF line[1].toolset = <<>> THEN <<>> ELSE line[1].toolset[1],
     Direction |-> line[1].direction,
     Timestamp |-> line[2].timestamp,
     Payload |-> line[2].payload]

\* readMessages skipping the lines that do not parse.
readMessagesLenient(content) ==
    LET lines == ScanLines(content, <<>>)
        RECURSIVE parsed(_)
        parsed(i) ==
            IF i > Len(lines) THEN <<>>
            ELSE (IF WellFormedLine(lines[i])
                  THEN <<UnmarshalMessage(lines[i])>> ELSE <<>>) \o parsed(i + 1)
    IN [err |-> "nil", messages |-> parsed(1)]

\* readMessages on a file's content.
readMessages(content) ==
    LET lines == ScanLines(content, <<>>)
    IN IF \E i \in 1..Len(lines) : ~WellFormedLine(lines[i])
       THEN [err |-> "unable to decode chat message", messages |-> <<>>]
       ELSE [err |-> "nil",
             messages |-> [i \in 1..Len(lines) |-> UnmarshalMessage(lines[i])]]

\* internal/server/chat.go: the direction the server's callers pass.
recordChatMessageDirection(payload) ==
    IF payload.valid /\ ~payload.id /\ payload # NilPayload
    THEN DirectionNotification
    ELSE DirectionRequest

(* ------------------------------- state -------------------------------- *)

Nil == [nil |-> TRUE]

\* NewStore comparing the root with "" without trimming it.
NewStoreUntrimmed(rootDir) ==
    IF rootDir = <<>> THEN Nil ELSE [rootDir |-> rootDir]

\* NewStore: a blank root gives the nil store, otherwise both directories exist.
NewStore(rootDir) ==
    IF TrimSpace(rootDir) = <<>> THEN Nil ELSE [rootDir |-> rootDir]

NewStoreDirs(rootDir) ==
    IF TrimSpace(rootDir) = <<>> THEN {}
    ELSE {statusDir(rootDir, FALSE), statusDir(rootDir, TRUE)}

\* Root locations a store is constructed with: "", " " and "r".
RootDirs == {<<>>, <<32>>, <<114>>}

\* Session identifiers callers pass: "", "a", "/" and "_" (the last two
\* sanitize to the same token).
SessionIDs == {<<>>, <<97>>, <<47>>, <<95>>}

Toolsets == {<<>>, <<116>>}

\* Payloads callers pass: a notification holding insignificant whitespace.
Payloads == {Payload(TRUE, FALSE, TRUE)}

\* What the server's caller recordChatMessage passes: it classifies the
\* payload.
RecordInputs ==
    {[toolset |-> <<>>, payload |-> pl, direction |-> recordChatMessageDirection(pl)]
        : pl \in Payloads}

\* Destinations ExportAll is called with: "", " " and "d/o".
OutputPaths == {<<>>, <<32>>, <<100, 47, 111>>}

NoExport == [ExportedAt |-> 0, ActiveChats |-> 0, ArchivedChats |-> 0, Chats |-> <<>>]

NoMessage == [SessionID |-> <<>>, Toolset |-> <<>>, Direction |-> "",
              Timestamp |-> 0, Payload |-> NilPayload]

NoLoc == [op |-> "none", sessionID |-> <<>>, message |-> NoMessage,
          rem |-> <<>>, pre |-> <<>>,
          outputPath |-> <<>>, cancelled |-> FALSE, archived |-> FALSE,
          entries |-> <<>>, chats |-> <<>>, activeChats |-> <<>>,
          export |-> NoExport]
\* pre is the log files as the call found them (when it took the lock, or
\* when it began if it takes none).
NoRet == [op |-> "none", sessionID |-> <<>>, err |-> "nil", pre |-> <<>>]

InitWith(calls, exports, faults) ==
    /\ \E rootDir \in RootDirs :
          /\ store = NewStore(rootDir)
          /\ dirs = NewStoreDirs(rootDir)
    /\ fs = <<>>
    /\ outDirs = {}
    /\ outFiles = <<>>
    /\ mu = 0
    /\ clock = 0
    /\ pc = [p \in Procs |-> "idle"]
    /\ loc = [p \in Procs |-> NoLoc]
    /\ ret = NoRet
    /\ callsLeft = calls
    /\ exportsLeft = exports
    /\ faultsLeft = faults
    /\ hist = <<>>

Init == InitWith(MaxCalls, 0, MaxFaults)

InitExport == InitWith(MaxCalls, MaxExports, 0)

(* ------------------------- file system helpers ------------------------ *)

Exists(f, path) == path \in DOMAIN f

\* O_CREATE: the file at path, created empty when absent.
CreateFile(f, path) == IF Exists(f, path) THEN f ELSE f @@ (path :> <<>>)

\* A write that lands in every existing file.
AppendBytesEverywhere(f, path, bytes) ==
    IF Exists(f, path) THEN [q \in DOMAIN f |-> f[q] \o bytes] ELSE f

\* O_APPEND write of bytes through a descriptor opened on path.
AppendBytes(f, path, bytes) ==
    IF Exists(f, path) THEN [f EXCEPT ![path] = @ \o bytes] ELSE f

\* os.WriteFile, and an open with O_TRUNC: the file holds data alone.
WriteFile(f, path, data) ==
    [q \in DOMAIN f \cup {path} |-> IF q = path THEN data ELSE f[q]]

RemoveFile(f, path) == [q \in DOMAIN f \ {path} |-> f[q]]

\* os.Rename: dest takes source's content (replacing any dest), source is gone.
RenameFile(f, source, dest) ==
    [q \in (DOMAIN f \ {source}) \cup {dest} |->
        IF q = dest THEN f[source] ELSE f[q]]

HistOf(h, name) == IF name \in DOMAIN h THEN h[name] ELSE <<>>

Recorded(h, name, message) ==
    [n \in DOMAIN h \cup {name} |->
        IF n = name THEN Append(HistOf(h, name), message) ELSE h[n]]

\* s.now(): the wall clock, which has advanced since it was last read.
Now == {clock + 1}

\* A lock that does not wait for its holder.
LockNoExclusion(p) == mu' = p

\* A return that leaves the lock with the caller.
UnlockSkipped(p) == mu' = mu

\* sync.Mutex
Lock(p) == mu = 0 /\ mu' = p
Unlock(p) == mu' = 0

Return(p, op, err) ==
    /\ pc' = [pc EXCEPT ![p] = "idle"]
    /\ loc' = [loc EXCEPT ![p] = NoLoc]
    /\ ret' = [op |-> op, sessionID |-> loc[p].sessionID, err |-> err,
               pre |-> loc[p].pre]

\* An injected I/O failure.
Fault == faultsLeft > 0 /\ faultsLeft' = faultsLeft - 1
NoFault == faultsLeft' = faultsLeft

(* ---------------------------- RecordMessage --------------------------- *)

\* RecordMessage without the check of the session identifier.
RecordMessageUnchecked(p, sessionID, toolset, direction, payload) ==
    /\ pc[p] = "idle"
    /\ callsLeft > 0
    /\ callsLeft' = callsLeft - 1
    /\ UNCHANGED <<hist, outDirs, outFiles, exportsLeft, store, dirs, fs, mu, faultsLeft>>
    /\ IF store = Nil THEN
          /\ ret' = [op |-> "RecordMessage", sessionID |-> sessionID, err |-> "nil",
                     pre |-> fs]
          /\ UNCHANGED <<clock, pc, loc>>
       ELSE \E t \in Now :
          /\ clock' = t
          /\ pc' = [pc EXCEPT ![p] = "rm_lock"]
          /\ loc' = [loc EXCEPT ![p] =
               LET message == [SessionID |-> sessionID,
                               Toolset |-> toolset,
                               Direction |-> direction,
                               Timestamp |-> t,
                               Payload |-> payload]
               IN [NoLoc EXCEPT !.op = "RecordMessage",
                                !.sessionID = sessionID,
                                !.message = message,
                                !.rem = MarshalMessage(message)]]
          /\ UNCHANGED ret

\* store.go 77-95: the checks, the timestamp and the serialization, all
\* before the lock is taken.
RecordMessage(p, sessionID, toolset, direction, payload) ==
    /\ pc[p] = "idle"
    /\ callsLeft > 0
    /\ callsLeft' = callsLeft - 1
    /\ UNCHANGED <<hist, outDirs, outFiles, exportsLeft, store, dirs, fs, mu, faultsLeft>>
    /\ IF store = Nil THEN
          /\ ret' = [op |-> "RecordMessage", sessionID |-> sessionID, err |-> "nil",
                     pre |-> fs]
          /\ UNCHANGED <<clock, pc, loc>>
       ELSE IF sessionID = <<>> THEN
          /\ ret' = [op |-> "RecordMessage", sessionID |-> sessionID,
                     err |-> "session id is required", pre |-> fs]
          /\ UNCHANGED <<clock, pc, loc>>
       ELSE \E t \in Now :
          /\ clock' = t
          /\ IF ~MarshalRaw(payload).ok THEN
                /\ ret' = [op |-> "RecordMessage", sessionID |-> sessionID,
                           err |-> "unable to marshal message", pre |-> fs]
                /\ UNCHANGED <<pc, loc>>
             ELSE
                /\ pc' = [pc EXCEPT ![p] = "rm_lock"]
                /\ loc' = [loc EXCEPT ![p] =
                     LET message == [SessionID |-> sessionID,
                                     Toolset |-> toolset,
                                     Direction |-> direction,
                                     Timestamp |-> t,
                                     Payload |-> payload]
                     IN [NoLoc EXCEPT !.op = "RecordMessage",
                                      !.sessionID = sessionID,
                                      !.message = message,
                                      !.rem = MarshalMessage(message)]]
                /\ UNCHANGED ret

\* RecordMessage going on to the file without taking the lock.
RmLockSkipped(p) ==
    /\ pc[p] = "rm_lock"
    /\ pc' = [pc EXCEPT ![p] = "rm_open"]
    /\ loc' = [loc EXCEPT ![p].pre = fs]
    /\ UNCHANGED <<hist, outDirs, outFiles, exportsLeft, store, dirs, fs, mu, clock,
                   ret, callsLeft, faultsLeft>>

\* store.go 97-99
RmLock(p) ==
    /\ pc[p] = "rm_lock"
    /\ Lock(p)
    /\ pc' = [pc EXCEPT ![p] = "rm_open"]
    /\ loc' = [loc EXCEPT ![p].pre = fs]
    /\ UNCHANGED <<hist, outDirs, outFiles, exportsLeft, store, dirs, fs, clock, ret, callsLeft, faultsLeft>>

\* store.go 100: os.OpenFile(path, O_CREATE|O_APPEND|O_WRONLY)
RmOpenOk(p) ==
    LET path == sessionPath(store, loc[p].sessionID, FALSE)
    IN /\ pc[p] = "rm_open"
       /\ ParentDir(path) \in dirs
       /\ fs' = CreateFile(fs, path)
       /\ pc' = [pc EXCEPT ![p] = "rm_write"]
       /\ NoFault
       /\ UNCHANGED <<hist, outDirs, outFiles, exportsLeft, store, dirs, mu, clock, loc, ret, callsLeft>>

\* store.go 101-103
RmOpenFail(p) ==
    LET path == sessionPath(store, loc[p].sessionID, FALSE)
    IN /\ pc[p] = "rm_open"
       /\ IF ParentDir(path) \in dirs THEN Fault ELSE NoFault
       /\ Unlock(p)
       /\ Return(p, "RecordMessage", "unable to open chat session file")
       /\ UNCHANGED <<hist, outDirs, outFiles, exportsLeft, store, dirs, fs, clock, callsLeft>>

\* store.go 106-113: the record reaches the file in one or more writes; the
\* last one is followed by the deferred Close and Unlock.
RmWriteOk(p) ==
    LET path == sessionPath(store, loc[p].sessionID, FALSE)
    IN /\ pc[p] = "rm_write"
       /\ \E k \in 1..Len(loc[p].rem) :
             /\ fs' = AppendBytes(fs, path, SubSeq(loc[p].rem, 1, k))
             /\ IF k = Len(loc[p].rem)
                THEN /\ Unlock(p)
                     /\ Return(p, "RecordMessage", "nil")
                     /\ hist' = Recorded(hist, BaseName(path), loc[p].message)
                ELSE /\ loc' = [loc EXCEPT ![p].rem = SubSeq(@, k + 1, Len(@))]
                     /\ UNCHANGED <<mu, pc, ret, hist>>
       /\ NoFault
       /\ UNCHANGED <<outDirs, outFiles, exportsLeft, store, dirs, clock, callsLeft>>

\* A failed write that leaves the log truncated.
RmWriteFailTruncates(p) ==
    /\ pc[p] = "rm_write"
    /\ Fault
    /\ fs' = WriteFile(fs, sessionPath(store, loc[p].sessionID, FALSE), <<>>)
    /\ Unlock(p)
    /\ Return(p, "RecordMessage", "unable to flush chat message")
    /\ UNCHANGED <<hist, outDirs, outFiles, exportsLeft, store, dirs, clock, callsLeft>>

\* store.go 107-112: a write fails; what was written before it stays.
RmWriteFail(p) ==
    /\ pc[p] = "rm_write"
    /\ Fault
    /\ Unlock(p)
    /\ Return(p, "RecordMessage", "unable to flush chat message")
    /\ UNCHANGED <<hist, outDirs, outFiles, exportsLeft, store, dirs, fs, clock, callsLeft>>

(* --------------------------- ArchiveSession --------------------------- *)

\* ArchiveSession without the check of the session identifier.
ArchiveSessionUnchecked(p, sessionID) ==
    /\ pc[p] = "idle"
    /\ callsLeft > 0
    /\ callsLeft' = callsLeft - 1
    /\ UNCHANGED <<hist, outDirs, outFiles, exportsLeft, store, dirs, fs, mu, clock, faultsLeft>>
    /\ IF store = Nil THEN
          /\ ret' = [op |-> "ArchiveSession", sessionID |-> sessionID, err |-> "nil",
                     pre |-> fs]
          /\ UNCHANGED <<pc, loc>>
       ELSE
          /\ pc' = [pc EXCEPT ![p] = "ar_lock"]
          /\ loc' = [loc EXCEPT ![p] =
               [NoLoc EXCEPT !.op = "ArchiveSession", !.sessionID = sessionID]]
          /\ UNCHANGED ret

\* store.go 116-122
ArchiveSession(p, sessionID) ==
    /\ pc[p] = "idle"
    /\ callsLeft > 0
    /\ callsLeft' = callsLeft - 1
    /\ UNCHANGED <<hist, outDirs, outFiles, exportsLeft, store, dirs, fs, mu, clock, faultsLeft>>
    /\ IF store = Nil \/ sessionID = <<>> THEN
          /\ ret' = [op |-> "ArchiveSession", sessionID |-> sessionID, err |-> "nil",
                     pre |-> fs]
          /\ UNCHANGED <<pc, loc>>
       ELSE
          /\ pc' = [pc EXCEPT ![p] = "ar_lock"]
          /\ loc' = [loc EXCEPT ![p] =
               [NoLoc EXCEPT !.op = "ArchiveSession", !.sessionID = sessionID]]
          /\ UNCHANGED ret

\* store.go 123-127
ArLock(p) ==
    /\ pc[p] = "ar_lock"
    /\ Lock(p)
    /\ pc' = [pc EXCEPT ![p] = "ar_stat_source"]
    /\ loc' = [loc EXCEPT ![p].pre = fs]
    /\ UNCHANGED <<hist, outDirs, outFiles, exportsLeft, store, dirs, fs, clock, ret, callsLeft, faultsLeft>>

\* The stat of the source without the os.ErrNotExist case: a missing active
\* log is reported as an error.
ArStatSourceStrict(p) ==
    LET source == sessionPath(store, loc[p].sessionID, FALSE)
    IN /\ pc[p] = "ar_stat_source"
       /\ IF Exists(fs, source)
          THEN /\ pc' = [pc EXCEPT ![p] = "ar_stat_dest"]
               /\ UNCHANGED <<mu, loc, ret>>
          ELSE /\ Unlock(p)
               /\ Return(p, "ArchiveSession", "unable to stat chat session file")
       /\ NoFault
       /\ UNCHANGED <<hist, outDirs, outFiles, exportsLeft, store, dirs, fs, clock, callsLeft>>

\* store.go 128-133: os.Stat(source)
ArStatSource(p) ==
    LET source == sessionPath(store, loc[p].sessionID, FALSE)
    IN /\ pc[p] = "ar_stat_source"
       /\ IF Exists(fs, source)
          THEN /\ pc' = [pc EXCEPT ![p] = "ar_stat_dest"]
               /\ UNCHANGED <<mu, loc, ret>>
          ELSE /\ Unlock(p)
               /\ Return(p, "ArchiveSession", "nil")
       /\ NoFault
       /\ UNCHANGED <<hist, outDirs, outFiles, exportsLeft, store, dirs, fs, clock, callsLeft>>

\* store.go 132
ArStatSourceFail(p) ==
    /\ pc[p] = "ar_stat_source"
    /\ Fault
    /\ Unlock(p)
    /\ Return(p, "ArchiveSession", "unable to stat chat session file")
    /\ UNCHANGED <<hist, outDirs, outFiles, exportsLeft, store, dirs, fs, clock, callsLeft>>

\* store.go 135, 143: os.Stat(dest)
ArStatDest(p) ==
    LET dest == sessionPath(store, loc[p].sessionID, TRUE)
    IN /\ pc[p] = "ar_stat_dest"
       /\ pc' = [pc EXCEPT ![p] =
                   IF Exists(fs, dest) THEN "ap_read" ELSE "ar_rename"]
       /\ NoFault
       /\ UNCHANGED <<hist, outDirs, outFiles, exportsLeft, store, dirs, fs, mu, clock, loc, ret, callsLeft>>

\* store.go 143-145
ArStatDestFail(p) ==
    /\ pc[p] = "ar_stat_dest"
    /\ Fault
    /\ Unlock(p)
    /\ Return(p, "ArchiveSession", "unable to stat chat archive file")
    /\ UNCHANGED <<hist, outDirs, outFiles, exportsLeft, store, dirs, fs, clock, callsLeft>>

\* The move done as a copy that leaves the source in place.
ArRenameCopies(p) ==
    LET source == sessionPath(store, loc[p].sessionID, FALSE)
        dest == sessionPath(store, loc[p].sessionID, TRUE)
    IN /\ pc[p] = "ar_rename"
       /\ Exists(fs, source)
       /\ ParentDir(dest) \in dirs
       /\ fs' = WriteFile(fs, dest, fs[source])
       /\ Unlock(p)
       /\ Return(p, "ArchiveSession", "nil")
       /\ NoFault
       /\ UNCHANGED <<hist, outDirs, outFiles, exportsLeft, store, dirs, clock, callsLeft>>

\* store.go 147-150: os.Rename(source, dest)
ArRenameOk(p) ==
    LET source == sessionPath(store, loc[p].sessionID, FALSE)
        dest == sessionPath(store, loc[p].sessionID, TRUE)
    IN /\ pc[p] = "ar_rename"
       /\ Exists(fs, source)
       /\ ParentDir(dest) \in dirs
       /\ fs' = RenameFile(fs, source, dest)
       /\ Unlock(p)
       /\ Return(p, "ArchiveSession", "nil")
       /\ NoFault
       /\ UNCHANGED <<hist, outDirs, outFiles, exportsLeft, store, dirs, clock, callsLeft>>

\* store.go 147-149
ArRenameFail(p) ==
    LET source == sessionPath(store, loc[p].sessionID, FALSE)
        dest == sessionPath(store, loc[p].sessionID, TRUE)
    IN /\ pc[p] = "ar_rename"
       /\ IF Exists(fs, source) /\ ParentDir(dest) \in dirs THEN Fault ELSE NoFault
       /\ Unlock(p)
       /\ Return(p, "ArchiveSession", "unable to archive chat session file")
       /\ UNCHANGED <<hist, outDirs, outFiles, exportsLeft, store, dirs, fs, clock, callsLeft>>

\* store.go 255: appendFile reads the whole source
ApReadOk(p) ==
    LET source == sessionPath(store, loc[p].sessionID, FALSE)
    IN /\ pc[p] = "ap_read"
       /\ Exists(fs, source)
       /\ loc' = [loc EXCEPT ![p].rem = fs[source]]
       /\ pc' = [pc EXCEPT ![p] = "ap_open"]
       /\ NoFault
       /\ UNCHANGED <<hist, outDirs, outFiles, exportsLeft, store, dirs, fs, mu, clock, ret, callsLeft>>

\* store.go 256-258, 136-138
ApReadFail(p) ==
    LET source == sessionPath(store, loc[p].sessionID, FALSE)
    IN /\ pc[p] = "ap_read"
       /\ IF Exists(fs, source) THEN Fault ELSE NoFault
       /\ Unlock(p)
       /\ Return(p, "ArchiveSession", "unable to read chat session file")
       /\ UNCHANGED <<hist, outDirs, outFiles, exportsLeft, store, dirs, fs, clock, callsLeft>>

\* The open of appendFile with O_TRUNC in place of O_APPEND.
ApOpenTruncates(p) ==
    LET dest == sessionPath(store, loc[p].sessionID, TRUE)
    IN /\ pc[p] = "ap_open"
       /\ ParentDir(dest) \in dirs
       /\ fs' = WriteFile(fs, dest, <<>>)
       /\ pc' = [pc EXCEPT ![p] = "ap_write"]
       /\ NoFault
       /\ UNCHANGED <<hist, outDirs, outFiles, exportsLeft, store, dirs, mu, clock,
                      loc, ret, callsLeft>>

\* store.go 259: os.OpenFile(dest, O_CREATE|O_APPEND|O_WRONLY)
ApOpenOk(p) ==
    LET dest == sessionPath(store, loc[p].sessionID, TRUE)
    IN /\ pc[p] = "ap_open"
       /\ ParentDir(dest) \in dirs
       /\ fs' = CreateFile(fs, dest)
       /\ pc' = [pc EXCEPT ![p] = "ap_write"]
       /\ NoFault
       /\ UNCHANGED <<hist, outDirs, outFiles, exportsLeft, store, dirs, mu, clock, loc, ret, callsLeft>>

\* store.go 260-262, 136-138
ApOpenFail(p) ==
    LET dest == sessionPath(store, loc[p].sessionID, TRUE)
    IN /\ pc[p] = "ap_open"
       /\ IF ParentDir(dest) \in dirs THEN Fault ELSE NoFault
       /\ Unlock(p)
       /\ Return(p, "ArchiveSession", "unable to open chat archive file")
       /\ UNCHANGED <<hist, outDirs, outFiles, exportsLeft, store, dirs, fs, clock, callsLeft>>

\* store.go 264, 267: file.Write(data), in one or more writes; an empty
\* source is written in none.
ApWriteOk(p) ==
    LET dest == sessionPath(store, loc[p].sessionID, TRUE)
    IN /\ pc[p] = "ap_write"
       /\ IF loc[p].rem = <<>>
          THEN /\ pc' = [pc EXCEPT ![p] = "ar_remove"]
               /\ UNCHANGED <<fs, loc>>
          ELSE \E k \in 1..Len(loc[p].rem) :
               /\ fs' = AppendBytes(fs, dest, SubSeq(loc[p].rem, 1, k))
               /\ loc' = [loc EXCEPT ![p].rem = SubSeq(@, k + 1, Len(@))]
               /\ pc' = [pc EXCEPT ![p] =
                           IF k = Len(loc[p].rem) THEN "ar_remove" ELSE "ap_write"]
       /\ NoFault
       /\ UNCHANGED <<hist, outDirs, outFiles, exportsLeft, store, dirs, mu, clock, ret, callsLeft>>

\* A failed append that removes the source all the same.
ApWriteFailRemoves(p) ==
    /\ pc[p] = "ap_write"
    /\ loc[p].rem # <<>>
    /\ Fault
    /\ fs' = RemoveFile(fs, sessionPath(store, loc[p].sessionID, FALSE))
    /\ Unlock(p)
    /\ Return(p, "ArchiveSession", "unable to append chat archive file")
    /\ UNCHANGED <<hist, outDirs, outFiles, exportsLeft, store, dirs, clock, callsLeft>>

\* store.go 264-266, 136-138: a write fails; the source is left in place.
ApWriteFail(p) ==
    /\ pc[p] = "ap_write"
    /\ loc[p].rem # <<>>
    /\ Fault
    /\ Unlock(p)
    /\ Return(p, "ArchiveSession", "unable to append chat archive file")
    /\ UNCHANGED <<hist, outDirs, outFiles, exportsLeft, store, dirs, fs, clock, callsLeft>>

\* store.go 139-142: os.Remove(source)
ArRemoveOk(p) ==
    LET source == sessionPath(store, loc[p].sessionID, FALSE)
    IN /\ pc[p] = "ar_remove"
       /\ Exists(fs, source)
       /\ fs' = RemoveFile(fs, source)
       /\ Unlock(p)
       /\ Return(p, "ArchiveSession", "nil")
       /\ NoFault
       /\ UNCHANGED <<hist, outDirs, outFiles, exportsLeft, store, dirs, clock, callsLeft>>

\* store.go 139-141
ArRemoveFail(p) ==
    LET source == sessionPath(store, loc[p].sessionID, FALSE)
    IN /\ pc[p] = "ar_remove"
       /\ IF Exists(fs, source) THEN Fault ELSE NoFault
       /\ Unlock(p)
       /\ Return(p, "ArchiveSession", "unable to remove chat session file")
       /\ UNCHANGED <<hist, outDirs, outFiles, exportsLeft, store, dirs, fs, clock, callsLeft>>

(* ------------------------------ ExportAll ----------------------------- *)

\* os.ReadDir: the names in dir, sorted by filename.
RECURSIVE SortNames(_)
SortNames(names) ==
    IF names = {} THEN <<>>
    ELSE LET first == CHOOSE n \in names : \A m \in names : ~StrLess(m, n)
         IN <<first>> \o SortNames(names \ {first})

ReadDir(f, dir) == SortNames({BaseName(q) : q \in {r \in DOMAIN f : ParentDir(r) = dir}})

\* The export built without the sort: the chats in concatenation order.
sortSliceSkipped(chats) == {chats}

\* sort.Slice by SessionID: the order of equal elements is not specified, so
\* every sorted arrangement is a possible outcome.
sortSlice(chats) ==
    {[i \in 1..Len(chats) |-> chats[f[i]]] :
        f \in {g \in Permutations(1..Len(chats)) :
                 \A i, j \in 1..Len(chats) :
                    i < j => ~StrLess(chats[g[j]].SessionID, chats[g[i]].SessionID)}}

\* filepath.Dir and the cleaned destination
OutputFile(outputPath) == Join(<<>>, outputPath)
OutputDir(outputPath) == ParentDir(OutputFile(outputPath))

\* store.go 153-159
ExportAll(p, cancelled, outputPath) ==
    /\ pc[p] = "idle"
    /\ callsLeft > 0
    /\ exportsLeft > 0
    /\ callsLeft' = callsLeft - 1
    /\ exportsLeft' = exportsLeft - 1
    /\ UNCHANGED <<hist, store, dirs, fs, outDirs, outFiles, mu, clock, faultsLeft>>
    /\ IF store = Nil THEN
          /\ ret' = [op |-> "ExportAll", sessionID |-> <<>>,
                     err |-> "chat storage is not configured", pre |-> fs]
          /\ UNCHANGED <<pc, loc>>
       ELSE IF TrimSpace(outputPath) = <<>> THEN
          /\ ret' = [op |-> "ExportAll", sessionID |-> <<>>,
                     err |-> "output path is required", pre |-> fs]
          /\ UNCHANGED <<pc, loc>>
       ELSE
          /\ pc' = [pc EXCEPT ![p] = "ex_readdir"]
          /\ loc' = [loc EXCEPT ![p] =
               [NoLoc EXCEPT !.op = "ExportAll", !.outputPath = outputPath,
                             !.cancelled = cancelled, !.pre = fs]]
          /\ UNCHANGED ret

\* store.go 225, 161-179: loadChats returns chats.  After the active load
\* the archived load follows; after the archived load the export is built
\* and sorted.
LoadReturn(p, chats) ==
    IF ~loc[p].archived
    THEN /\ loc' = [loc EXCEPT ![p].activeChats = chats, ![p].chats = <<>>,
                               ![p].entries = <<>>, ![p].archived = TRUE]
         /\ pc' = [pc EXCEPT ![p] = "ex_readdir"]
         /\ UNCHANGED clock
    ELSE \E t \in Now, sorted \in sortSlice(loc[p].activeChats \o chats) :
         /\ clock' = t
         /\ loc' = [loc EXCEPT ![p].chats = <<>>, ![p].entries = <<>>,
                               ![p].export =
                                  [ExportedAt |-> t,
                                   ActiveChats |-> Len(loc[p].activeChats),
                                   ArchivedChats |-> Len(chats),
                                   Chats |-> sorted]]
         /\ pc' = [pc EXCEPT ![p] = "ex_mkdir"]

\* loadChats reading the active directory whichever corpus is asked for.
loadChatsDirActive(archived) == statusDir(store.rootDir, FALSE)

\* loadChats reading the other corpus's directory (the archived directory
\* in the first load, the active one in the second).
loadChatsDirReversed(archived) == statusDir(store.rootDir, ~archived)

\* store.go 196-200: the directory loadChats reads
loadChatsDir(archived) == statusDir(store.rootDir, archived)

\* loadChats reporting a missing directory as an error.
ExReadDirStrict(p) ==
    LET dir == loadChatsDir(loc[p].archived)
        entries == ReadDir(fs, dir)
    IN /\ pc[p] = "ex_readdir"
       /\ IF dir \notin dirs
          THEN /\ Return(p, "ExportAll", "unable to read chat directory")
               /\ UNCHANGED clock
          ELSE IF entries = <<>>
          THEN /\ LoadReturn(p, <<>>)
               /\ UNCHANGED ret
          ELSE /\ loc' = [loc EXCEPT ![p].entries = entries, ![p].chats = <<>>]
               /\ pc' = [pc EXCEPT ![p] = "ex_entry"]
               /\ UNCHANGED <<clock, ret>>
       /\ NoFault
       /\ UNCHANGED <<hist, store, dirs, fs, outDirs, outFiles, mu, callsLeft,
                      exportsLeft>>

\* store.go 196-209: os.ReadDir of the status directory
ExReadDir(p) ==
    LET dir == loadChatsDir(loc[p].archived)
        entries == ReadDir(fs, dir)
    IN /\ pc[p] = "ex_readdir"
       /\ IF dir \notin dirs \/ entries = <<>>
          THEN LoadReturn(p, <<>>)
          ELSE /\ loc' = [loc EXCEPT ![p].entries = entries, ![p].chats = <<>>]
               /\ pc' = [pc EXCEPT ![p] = "ex_entry"]
               /\ UNCHANGED clock
       /\ NoFault
       /\ UNCHANGED <<hist, store, dirs, fs, outDirs, outFiles, mu, ret, callsLeft,
                      exportsLeft>>

\* store.go 206
ExReadDirFail(p) ==
    /\ pc[p] = "ex_readdir"
    /\ loadChatsDir(loc[p].archived) \in dirs
    /\ Fault
    /\ Return(p, "ExportAll", "unable to read chat directory")
    /\ UNCHANGED <<hist, store, dirs, fs, outDirs, outFiles, mu, clock, callsLeft,
                   exportsLeft>>

\* store.go 210-224: one iteration of the loop over the entries
ExEntry(p) ==
    LET dir == loadChatsDir(loc[p].archived)
        name == Head(loc[p].entries)
        path == Join(dir, name)
        read == readMessages(fs[path])
        chats == Append(loc[p].chats,
                        [SessionID |-> TrimSuffix(name, Suffix),
                         Archived |-> loc[p].archived,
                         Messages |-> read.messages])
    IN /\ pc[p] = "ex_entry"
       /\ IF loc[p].cancelled THEN
             /\ Return(p, "ExportAll", "context canceled")
             /\ UNCHANGED clock
          ELSE IF ~HasSuffix(name, Suffix) THEN
             IF Tail(loc[p].entries) = <<>>
             THEN /\ LoadReturn(p, loc[p].chats)
                  /\ UNCHANGED ret
             ELSE /\ loc' = [loc EXCEPT ![p].entries = Tail(@)]
                  /\ UNCHANGED <<pc, ret, clock>>
          ELSE IF ~Exists(fs, path) THEN
             /\ Return(p, "ExportAll", "unable to open chat session file")
             /\ UNCHANGED clock
          ELSE IF read.err # "nil" THEN
             /\ Return(p, "ExportAll", read.err)
             /\ UNCHANGED clock
          ELSE IF Tail(loc[p].entries) = <<>>
             THEN /\ LoadReturn(p, chats)
                  /\ UNCHANGED ret
             ELSE /\ loc' = [loc EXCEPT ![p].entries = Tail(@), ![p].chats = chats]
                  /\ UNCHANGED <<pc, ret, clock>>
       /\ NoFault
       /\ UNCHANGED <<hist, store, dirs, fs, outDirs, outFiles, mu, callsLeft, exportsLeft>>

\* store.go 271-274, 287-289: the open or the scan of a log fails
ExEntryFail(p) ==
    /\ pc[p] = "ex_entry"
    /\ ~loc[p].cancelled
    /\ Fault
    /\ Return(p, "ExportAll", "unable to open chat session file")
    /\ UNCHANGED <<hist, store, dirs, fs, outDirs, outFiles, mu, clock, callsLeft,
                   exportsLeft>>

\* store.go 181-188: os.MkdirAll(filepath.Dir(outputPath))
ExMkdir(p) ==
    /\ pc[p] = "ex_mkdir"
    /\ outDirs' = outDirs \cup {OutputDir(loc[p].outputPath)}
    /\ pc' = [pc EXCEPT ![p] = "ex_write"]
    /\ NoFault
    /\ UNCHANGED <<hist, store, dirs, fs, outFiles, mu, clock, loc, ret, callsLeft,
                   exportsLeft>>

\* store.go 186-188
ExMkdirFail(p) ==
    /\ pc[p] = "ex_mkdir"
    /\ Fault
    /\ Return(p, "ExportAll", "unable to create export directory")
    /\ UNCHANGED <<hist, store, dirs, fs, outDirs, outFiles, mu, clock, callsLeft,
                   exportsLeft>>

\* What os.WriteFile leaves when the write after its O_TRUNC open fails.
Truncated == [truncated |-> TRUE]

\* store.go 189-192: os.WriteFile(outputPath, data)
ExWrite(p) ==
    /\ pc[p] = "ex_write"
    /\ outFiles' = WriteFile(outFiles, OutputFile(loc[p].outputPath), loc[p].export)
    /\ Return(p, "ExportAll", "nil")
    /\ NoFault
    /\ UNCHANGED <<hist, store, dirs, fs, outDirs, mu, clock, callsLeft, exportsLeft>>

\* store.go 189-191: the open fails (nothing changes) or the write fails
\* (the file is left truncated).
ExWriteFail(p) ==
    /\ pc[p] = "ex_write"
    /\ Fault
    /\ \/ UNCHANGED outFiles
       \/ outFiles' = WriteFile(outFiles, OutputFile(loc[p].outputPath), Truncated)
    /\ Return(p, "ExportAll", "unable to write export file")
    /\ UNCHANGED <<hist, store, dirs, fs, outDirs, mu, clock, callsLeft, exportsLeft>>

\* The caller cancels the context of an ExportAll that is loading.
Cancel(p) ==
    /\ pc[p] \in {"ex_readdir", "ex_entry"}
    /\ ~loc[p].cancelled
    /\ loc' = [loc EXCEPT ![p].cancelled = TRUE]
    /\ UNCHANGED <<hist, store, dirs, fs, outDirs, outFiles, mu, clock, pc, ret,
                   callsLeft, exportsLeft, faultsLeft>>

(* ----------------------------- environment ---------------------------- *)

\* An empty status directory is removed from outside (the case loadChats
\* answers with an empty result).
EnvRemoveDir(dir) ==
    /\ dir \in dirs
    /\ \A q \in DOMAIN fs : ParentDir(q) # dir
    /\ dirs' = dirs \ {dir}
    /\ UNCHANGED <<hist, store, fs, outDirs, outFiles, mu, clock, pc, loc, ret,
                   callsLeft, exportsLeft, faultsLeft>>

(* ------------------------------- system ------------------------------- *)

\* The steps of a RecordMessage or ArchiveSession call when no I/O fails.
MutatorStep(p) ==
    \/ RmLock(p)
    \/ RmOpenOk(p)
    \/ RmWriteOk(p)
    \/ ArLock(p)
    \/ ArStatSource(p)
    \/ ArStatDest(p)
    \/ ArRenameOk(p)
    \/ ApReadOk(p)
    \/ ApOpenOk(p)
    \/ ApWriteOk(p)
    \/ ArRemoveOk(p)

\* The steps at which an I/O operation of such a call fails.
MutatorFault(p) ==
    \/ RmOpenFail(p)
    \/ RmWriteFail(p)
    \/ ArStatSourceFail(p)
    \/ ArStatDestFail(p)
    \/ ArRenameFail(p)
    \/ ApReadFail(p)
    \/ ApOpenFail(p)
    \/ ApWriteFail(p)
    \/ ArRemoveFail(p)

ExportStep(p) ==
    \/ ExReadDir(p)
    \/ ExEntry(p)
    \/ ExMkdir(p)
    \/ ExWrite(p)

ExportFault(p) ==
    \/ ExReadDirFail(p)
    \/ ExEntryFail(p)
    \/ ExMkdirFail(p)
    \/ ExWriteFail(p)

MutatorCall(p) ==
    \/ \E sid \in SessionIDs, in \in RecordInputs :
          RecordMessage(p, sid, in.toolset, in.direction, in.payload)
    \/ \E sid \in SessionIDs : ArchiveSession(p, sid)

ExportCall(p) ==
    \E cancelled \in BOOLEAN, outputPath \in OutputPaths :
        ExportAll(p, cancelled, outputPath)

\* Concurrent RecordMessage and ArchiveSession calls, with I/O failures.
Next ==
    \E p \in Procs : MutatorCall(p) \/ MutatorStep(p) \/ MutatorFault(p)

Spec == Init /\ [][Next]_vars

\* ExportAll running beside RecordMessage and ArchiveSession calls.
NextExport ==
    \E p \in Procs : MutatorCall(p) \/ MutatorStep(p) \/ ExportCall(p) \/ ExportStep(p)

SpecExport == InitExport /\ [][NextExport]_vars

\* One RecordMessage on an empty store, then a load: the calls are made
\* with every kind of argument RecordMessage tells apart.  Session
\* identifiers "", "a", "/" and a byte that is not UTF-8; payloads with and
\* without insignificant whitespace, invalid JSON, and nil.
RoundTripSessionIDs == {<<>>, <<97>>, <<47>>, <<BadByte>>}

RoundTripPayloads ==
    {Payload(TRUE, FALSE, TRUE), Payload(TRUE, TRUE, FALSE),
     Payload(FALSE, FALSE, FALSE), NilPayload}

Directions == {DirectionRequest, DirectionNotification, DirectionResponse}

MaxRoundTripCalls == 2

InitRoundTrip == InitWith(MaxRoundTripCalls, MaxExports, 0)

RoundTripRecord(p) ==
    \E sid \in RoundTripSessionIDs, toolset \in Toolsets,
       direction \in Directions, payload \in RoundTripPayloads :
        /\ fs = <<>>
        /\ \A q \in Procs : pc[q] = "idle"
        /\ RecordMessage(p, sid, toolset, direction, payload)

RoundTripLoad(p) ==
    \E outputPath \in OutputPaths :
        /\ \A q \in Procs : pc[q] = "idle"
        /\ ExportAll(p, FALSE, outputPath)

NextRoundTrip ==
    \E p \in Procs :
        \/ RoundTripRecord(p)
        \/ RoundTripLoad(p)
        \/ RmLock(p)
        \/ RmOpenOk(p)
        \/ RmWriteOk(p)
        \/ ExportStep(p)

SpecRoundTrip == InitRoundTrip /\ [][NextRoundTrip]_vars

\* RecordMessage and ArchiveSession on a store whose status directories can
\* be removed from outside while they are empty.  No I/O fails by itself:
\* an open or a rename fails when its directory is missing.
MaxEnvCalls == 4

InitEnv == InitWith(MaxEnvCalls, 0, 0)

NextEnv ==
    \/ \E p \in Procs :
          \/ MutatorCall(p)
          \/ MutatorStep(p)
          \/ RmOpenFail(p)
          \/ ArRenameFail(p)
    \/ \E dir \in dirs : EnvRemoveDir(dir)

SpecEnv == InitEnv /\ [][NextEnv]_vars

\* RecordMessage called with every identifier of up to MaxSanitizeLen
\* characters over an alphabet that holds the ends of each allowed range
\* and their neighbours, the three allowed marks, '/', '\', ':', ' ', a
\* non-ASCII letter and a byte that is not UTF-8.
MaxSanitizeLen == 2

SanitizeAlphabet ==
    {97, 122, 65, 90, 48, 57, 45, 95, 46,
     96, 123, 64, 91, 47, 58, 92, 32, 233, BadByte}

SanitizeInputs ==
    UNION {[1..n -> SanitizeAlphabet] : n \in 0..MaxSanitizeLen}

InitSanitize == InitWith(1, 0, 0)

SanitizeCall(p) ==
    \E sid \in SanitizeInputs, in \in RecordInputs :
        RecordMessage(p, sid, in.toolset, in.direction, in.payload)

NextSanitize ==
    \E p \in Procs :
        \/ SanitizeCall(p)
        \/ RmLock(p)
        \/ RmOpenOk(p)
        \/ RmWriteOk(p)

SpecSanitize == InitSanitize /\ [][NextSanitize]_vars

\* RecordMessage and ArchiveSession called with identifiers made of dots
\* and path separators: "", ".", "..", "../" and "a/".  No I/O fails.
PathSessionIDs == {<<>>, <<46>>, <<46, 46>>, <<46, 46, 47>>, <<97, 47>>}

InitPaths == InitWith(MaxCalls, 0, 0)

PathsCall(p) ==
    \/ \E sid \in PathSessionIDs, in \in RecordInputs :
          RecordMessage(p, sid, in.toolset, in.direction, in.payload)
    \/ \E sid \in PathSessionIDs : ArchiveSession(p, sid)

NextPaths == \E p \in Procs : PathsCall(p) \/ MutatorStep(p)

SpecPaths == InitPaths /\ [][NextPaths]_vars

\* ExportAll beside RecordMessage and ArchiveSession calls for the session
\* "a", on a store whose status directories can be removed from outside
\* while they are empty.  No I/O fails by itself.
MaxLoadCalls == 5

InitLoad == InitWith(MaxLoadCalls, MaxExports, 0)

LoadCall(p) ==
    \/ \E in \in RecordInputs :
          RecordMessage(p, <<97>>, in.toolset, in.direction, in.payload)
    \/ ArchiveSession(p, <<97>>)
    \/ ExportAll(p, FALSE, <<100, 47, 111>>)

NextLoad ==
    \/ \E p \in Procs :
          \/ LoadCall(p)
          \/ MutatorStep(p)
          \/ RmOpenFail(p)
          \/ ArRenameFail(p)
          \/ ExportStep(p)
    \/ \E dir \in dirs : EnvRemoveDir(dir)

SpecLoad == InitLoad /\ [][NextLoad]_vars

\* Concurrent RecordMessage and ArchiveSession calls for the session "a",
\* with I/O failures, under fair scheduling: a caller that can take a step
\* (the next statement of its call, or the lock when it is free) eventually
\* takes one.  The Go scheduler runs every runnable goroutine, and
\* sync.Mutex hands the lock to a waiter.
MaxFairCalls == 4

InitFair == InitWith(MaxFairCalls, 0, MaxFaults)

FairCall(p) ==
    \/ \E in \in RecordInputs :
          RecordMessage(p, <<97>>, in.toolset, in.direction, in.payload)
    \/ ArchiveSession(p, <<97>>)

NextFair == \E p \in Procs : FairCall(p) \/ MutatorStep(p) \/ MutatorFault(p)

Fairness == \A p \in Procs : WF_vars(MutatorStep(p) \/ MutatorFault(p))

SpecFair == InitFair /\ [][NextFair]_vars /\ Fairness

(* ------------------------- notions the claims use --------------------- *)

Source(sid) == sessionPath(store, sid, FALSE)
Dest(sid) == sessionPath(store, sid, TRUE)

\* A log's content, empty when there is no log.
LogOf(f, path) == IF Exists(f, path) THEN f[path] ELSE <<>>

\* A session's whole history: the archived log's bytes, then the active log's.
Combined(f, sid) == LogOf(f, Dest(sid)) \o LogOf(f, Source(sid))

\* The bytes of a sequence of messages as RecordMessage writes them.
RECURSIVE Serialized(_)
Serialized(messages) ==
    IF messages = <<>> THEN <<>>
    ELSE MarshalMessage(Head(messages)) \o Serialized(Tail(messages))

RecordLen == Len(MarshalMessage(NoMessage))

\* Caller p's call returns in this step (calls that return at once, without
\* taking the lock, never leave "idle").
Returns(p, op) == loc[p].op = op /\ pc[p] # "idle" /\ pc'[p] = "idle"

ValidSessionIDs == SessionIDs \ {<<>>}

CriticalSection ==
    {"rm_open", "rm_write", "ar_stat_source", "ar_stat_dest", "ar_rename",
     "ap_read", "ap_open", "ap_write", "ar_remove"}

NoFaultSoFar == faultsLeft = MaxFaults

\* Session sid has an active log and an archived log at once.
Both(f, sid) == Exists(f, Source(sid)) /\ Exists(f, Dest(sid))

\* The log files of a status directory, and the Chat loadChats builds from
\* the log at path q.
LogsIn(f, archived) ==
    {q \in DOMAIN f : ParentDir(q) = statusDir(store.rootDir, archived)}

ChatOf(f, q) ==
    [SessionID |-> TrimSuffix(BaseName(q), Suffix),
     Archived |-> ParentDir(q) = statusDir(store.rootDir, TRUE),
     Messages |-> readMessages(f[q]).messages]

\* A string that is empty or all white space.
Blank(s) == \A i \in 1..Len(s) : IsSpace(s[i])

\* A call is made in this step and returns at once, without a further step.
ReturnsAtOnce(op) == callsLeft' # callsLeft /\ pc' = pc /\ ret'.op = op

\* A log content with a line that does not parse as a Message.
Malformed(content) ==
    \E i \in 1..Len(ScanLines(content, <<>>)) :
        ~WellFormedLine(ScanLines(content, <<>>)[i])

\* The characters a token may hold: ASCII letters, digits, '-', '_', '.'.
AllowedChars == (97..122) \cup (65..90) \cup (48..57) \cup {45, 95, 46}

\* A path that names a file directly inside root/active or root/archived.
DirectChild(path) ==
    /\ Len(path) = 3
    /\ path[1] = store.rootDir
    /\ path[2] \in {ActiveName, ArchivedName}
    /\ path[3] \notin {<<>>, <<46>>, <<46, 46>>}

\* The token of an identifier: its allowed characters, '_' for the others;
\* and the log of an identifier in a status directory.
TokenOf(sid) ==
    [i \in 1..Len(sid) |-> IF sid[i] \in AllowedChars THEN sid[i] ELSE 95]

LogPath(sid, archived) ==
    <<store.rootDir, IF archived THEN ArchivedName ELSE ActiveName,
      TokenOf(sid) \o Suffix>>

\* An identifier as a JSON string holds it: U+FFFD for each byte that is
\* not UTF-8.
AsJSONString(sid) ==
    [i \in 1..Len(sid) |-> IF sid[i] = BadByte THEN RuneError ELSE sid[i]]

\* Caller p has loaded the active corpus after the one RecordMessage call
\* on the empty store returned nil.
LoadedAfterRecord(p) ==
    /\ pc[p] = "ex_readdir"
    /\ loc[p].archived
    /\ ret.op = "RecordMessage"
    /\ ret.err = "nil"
    /\ ret.pre = <<>>

\* The errors ArchiveSession returns when appendFile fails.
AppendErrors ==
    {"unable to read chat session file", "unable to open chat archive file",
     "unable to append chat archive file"}

(* -------------------------------- claims ------------------------------ *)

\* C1: a successful ArchiveSession(S) that found the active log holding A
\* and the archived log holding B (empty when there was none) leaves no
\* active log for S and an archived log equal to B followed by A.
C1_ArchivePostcondition ==
    [][\A p \in Procs :
          (Returns(p, "ArchiveSession") /\ ret'.err = "nil") =>
             LET sid == loc[p].sessionID
                 pre == loc[p].pre
             IN /\ ~Exists(fs', Source(sid))
                /\ LogOf(fs', Dest(sid)) =
                      LogOf(pre, Dest(sid)) \o LogOf(pre, Source(sid))
                /\ Exists(pre, Source(sid)) => Exists(fs', Dest(sid))]_vars

\* A merge has happened: the last call to return is a successful
\* ArchiveSession that found records in both logs, and the archived log now
\* holds the old archived records followed by the active ones.
C1_Witness ==
    /\ store # Nil
    /\ ret.op = "ArchiveSession"
    /\ ret.err = "nil"
    /\ Len(LogOf(ret.pre, Source(ret.sessionID))) >= RecordLen
    /\ Len(LogOf(ret.pre, Dest(ret.sessionID))) >= RecordLen
    /\ fs[Dest(ret.sessionID)] =
          ret.pre[Dest(ret.sessionID)] \o ret.pre[Source(ret.sessionID)]

\* C2: concurrent RecordMessage calls never interleave the bytes of two
\* records.  When no I/O has failed and no call is inside the lock, every
\* session's log bytes are exactly the serialized records of the calls that
\* returned nil, whole and one after the other: as many complete lines as
\* successful calls, none split, merged or lost.
C2_NoInterleaving ==
    (store # Nil /\ mu = 0 /\ NoFaultSoFar) =>
        \A sid \in ValidSessionIDs :
            LET recorded == HistOf(hist, BaseName(Source(sid)))
                lines == ScanLines(Combined(fs, sid), <<>>)
            IN /\ Combined(fs, sid) = Serialized(recorded)
               /\ Len(lines) = Len(recorded)
               /\ \A i \in 1..Len(lines) : WellFormedLine(lines[i])

\* Two RecordMessage calls for one session overlapped and both returned nil:
\* the log holds two whole records, the later timestamp first (the call that
\* read the clock first took the lock second).
C2_Witness ==
    /\ store # Nil
    /\ mu = 0
    /\ NoFaultSoFar
    /\ \E sid \in ValidSessionIDs :
          LET read == readMessages(LogOf(fs, Source(sid)))
          IN /\ read.err = "nil"
             /\ Len(read.messages) = 2
             /\ read.messages[1].Timestamp > read.messages[2].Timestamp
             /\ Len(HistOf(hist, BaseName(Source(sid)))) = 2

\* C3: at most one RecordMessage or ArchiveSession call is inside its
\* file-mutating section, whichever sessions the calls are for.
C3_MutualExclusion ==
    \A p, q \in Procs :
        (p # q /\ pc[p] \in CriticalSection) => pc[q] \notin CriticalSection

\* One call is in the middle of writing a record while a call for another
\* session waits for the lock.
C3_Witness ==
    \E p, q \in Procs :
        /\ pc[p] = "rm_write"
        /\ Len(loc[p].rem) < RecordLen
        /\ mu = p
        /\ pc[q] \in {"rm_lock", "ar_lock"}
        /\ sanitizeSessionID(loc[q].sessionID) # sanitizeSessionID(loc[p].sessionID)

\* C4 (as stated): no session ever has an active log and an archived log at
\* the same time.
C4_MutuallyExclusive ==
    store # Nil => \A sid \in ValidSessionIDs : ~Both(fs, sid)

\* C4 (amended): a session can have both logs, and only RecordMessage brings
\* that about: the one step after which a session has both logs and did not
\* before is RecordMessage's open creating the active log of a session whose
\* archived log exists.  No ArchiveSession step does, and a successful
\* ArchiveSession(S) leaves S with its archived log only.
C4_CoexistOnlyByRecord ==
    [][store # Nil =>
         /\ \A sid \in ValidSessionIDs :
               (fs' # fs /\ ~Both(fs, sid) /\ Both(fs', sid)) =>
                  \E p \in Procs :
                     /\ pc[p] = "rm_open" /\ pc'[p] = "rm_write"
                     /\ Source(loc[p].sessionID) = Source(sid)
                     /\ Exists(fs, Dest(sid))
         /\ \A p \in Procs :
               (Returns(p, "ArchiveSession") /\ ret'.err = "nil") =>
                  ~Both(fs', loc[p].sessionID)]_vars

\* RecordMessage for an archived session has returned nil and the session
\* now has an active log next to its archived log.
C4_Witness ==
    /\ store # Nil
    /\ ret.op = "RecordMessage"
    /\ ret.err = "nil"
    /\ ~Exists(ret.pre, Source(ret.sessionID))
    /\ Len(LogOf(ret.pre, Dest(ret.sessionID))) >= RecordLen
    /\ Both(fs, ret.sessionID)
    /\ Len(fs[Source(ret.sessionID)]) = RecordLen

\* C5 (as stated): whenever a call returns, with or without an error, every
\* session's history (archived bytes, then active bytes) as the call found
\* it is a prefix of the history it leaves.
C5_AppendOnly ==
    [][\A p \in Procs :
          (store # Nil /\ pc[p] # "idle" /\ pc'[p] = "idle") =>
             \A sid \in ValidSessionIDs :
                IsPrefix(Combined(loc[p].pre, sid), Combined(fs', sid))]_vars

\* C6: ArchiveSession(S) for a session with no active log (already archived,
\* or never created) changes no file, and returns nil unless the stat of the
\* active log itself fails.
C6_ArchiveIdempotent ==
    [][\A p \in Procs :
          (Returns(p, "ArchiveSession")
              /\ ~Exists(loc[p].pre, Source(loc[p].sessionID))) =>
             /\ fs' = loc[p].pre
             /\ fs' = fs
             /\ (faultsLeft' = faultsLeft => ret'.err = "nil")]_vars

\* A second ArchiveSession of an archived session has returned nil, the
\* archived log as it was and still no active log.
C6_Witness ==
    /\ store # Nil
    /\ ret.op = "ArchiveSession"
    /\ ret.err = "nil"
    /\ ret.sessionID # <<>>
    /\ ~Exists(ret.pre, Source(ret.sessionID))
    /\ Len(LogOf(ret.pre, Dest(ret.sessionID))) >= RecordLen
    /\ fs = ret.pre

\* C7: in the merge path the active log goes away only in the remove that
\* follows a complete append, and a call that fails in appendFile (read, open
\* or write) returns with the active log present and its content unchanged.
C7_NoDeleteBeforeAppend ==
    [][store # Nil =>
         /\ \A p \in Procs :
               (Returns(p, "ArchiveSession") /\ ret'.err \in AppendErrors) =>
                  LET source == Source(loc[p].sessionID)
                  IN /\ Exists(fs', source)
                     /\ Exists(loc[p].pre, source)
                     /\ fs'[source] = loc[p].pre[source]
         /\ \A sid \in ValidSessionIDs :
               (fs' # fs /\ Both(fs, sid) /\ ~Exists(fs', Source(sid))) =>
                  \E p \in Procs :
                     /\ pc[p] = "ar_remove"
                     /\ Source(loc[p].sessionID) = Source(sid)
                     /\ ret'.err = "nil"
                     /\ fs[Dest(sid)] =
                           loc[p].pre[Dest(sid)] \o loc[p].pre[Source(sid)]]_vars

\* A merge has failed part of the way through its append: the archived log
\* has grown, the call returned the append error, and the active log is
\* where it was.
C7_Witness ==
    /\ store # Nil
    /\ ret.op = "ArchiveSession"
    /\ ret.err = "unable to append chat archive file"
    /\ Exists(fs, Source(ret.sessionID))
    /\ fs[Source(ret.sessionID)] = ret.pre[Source(ret.sessionID)]
    /\ Len(fs[Source(ret.sessionID)]) >= RecordLen
    /\ Len(fs[Dest(ret.sessionID)]) > Len(ret.pre[Dest(ret.sessionID)])

\* C8 (as stated): when the one message recorded on an empty store has been
\* loaded, the active corpus is exactly one Chat for the session, not
\* archived, whose messages are exactly the appended Message: the session
\* id, toolset, direction, timestamp and payload RecordMessage was given.
C8_RoundTrip ==
    \A p \in Procs :
        (/\ pc[p] = "ex_readdir"
         /\ loc[p].archived
         /\ ret.op = "RecordMessage"
         /\ ret.err = "nil"
         /\ ret.pre = <<>>) =>
            LET name == BaseName(Source(ret.sessionID))
                appended == HistOf(hist, name)
            IN /\ Len(appended) = 1
               /\ loc[p].activeChats =
                     << [SessionID |-> TrimSuffix(name, Suffix),
                         Archived |-> FALSE,
                         Messages |-> appended] >>

\* C9: an ExportAll during which the log files did not change writes a
\* snapshot whose activeChats and archivedChats are the numbers of active
\* and archived logs, whose chats hold exactly one Chat per log (the log's
\* records in order, the archived flag of its directory), and whose chats
\* are in ascending order of sessionId.
C9_QuiescentExport ==
    [][\A p \in Procs :
          (pc[p] = "ex_write" /\ pc'[p] = "idle" /\ ret'.err = "nil"
              /\ loc[p].pre = fs) =>
             LET e == outFiles'[OutputFile(loc[p].outputPath)]
                 active == LogsIn(fs, FALSE)
                 archived == LogsIn(fs, TRUE)
             IN /\ e.ActiveChats = Cardinality(active)
                /\ e.ArchivedChats = Cardinality(archived)
                /\ Len(e.Chats) = e.ActiveChats + e.ArchivedChats
                /\ \A q \in active \cup archived :
                      Cardinality({i \in 1..Len(e.Chats) :
                                      e.Chats[i] = ChatOf(fs, q)}) = 1
                /\ \A i, j \in 1..Len(e.Chats) :
                      i < j => ~StrLess(e.Chats[j].SessionID, e.Chats[i].SessionID)]_vars

\* An export of an unchanging store with an active log "a" and an archived
\* log "_" has been written: the archived chat comes first, though it was
\* loaded second.
C9_Witness ==
    /\ ret.op = "ExportAll"
    /\ ret.err = "nil"
    /\ ret.pre = fs
    /\ \E f \in DOMAIN outFiles :
          /\ outFiles[f].ActiveChats = 1
          /\ outFiles[f].ArchivedChats = 1
          /\ Len(outFiles[f].Chats) = 2
          /\ outFiles[f].Chats[1].Archived
          /\ ~outFiles[f].Chats[2].Archived
          /\ Len(outFiles[f].Chats[1].Messages) = 1
          /\ StrLess(outFiles[f].Chats[1].SessionID, outFiles[f].Chats[2].SessionID)

\* C10 (as stated): in every written export, of two Chats with the same
\* sessionId the one loaded from the active directory comes first.
C10_StableOrder ==
    \A f \in DOMAIN outFiles :
        outFiles[f] # Truncated =>
           \A i, j \in 1..Len(outFiles[f].Chats) :
              (i < j /\ outFiles[f].Chats[i].SessionID = outFiles[f].Chats[j].SessionID)
                 => (~outFiles[f].Chats[i].Archived /\ outFiles[f].Chats[j].Archived)

\* C11 (as stated): an ExportAll whose context has been cancelled (here:
\* before the call) returns an error and does not write the destination.
C11_CancelledExportFails ==
    [][\A p \in Procs :
          (loc[p].op = "ExportAll" /\ loc[p].cancelled
              /\ pc[p] # "idle" /\ pc'[p] = "idle") =>
             (ret'.err # "nil" /\ outFiles' = outFiles)]_vars

\* C12: a successfully written export can hold two Chats for one session,
\* and they are always one from each corpus, each counted in its corpus's
\* counter; that happens only when the session had both logs as ExportAll
\* began or its logs were moved or created while ExportAll ran (an
\* ArchiveSession between the two loads is the case of the witness).
C12_InBothCorpora ==
    [][\A p \in Procs :
          (pc[p] = "ex_write" /\ pc'[p] = "idle" /\ ret'.err = "nil") =>
             LET e == outFiles'[OutputFile(loc[p].outputPath)]
                 pre == loc[p].pre
                 n == Len(e.Chats)
             IN /\ e.ActiveChats = Cardinality({i \in 1..n : ~e.Chats[i].Archived})
                /\ e.ArchivedChats = Cardinality({i \in 1..n : e.Chats[i].Archived})
                /\ \A i, j \in 1..n :
                      (i # j /\ e.Chats[i].SessionID = e.Chats[j].SessionID) =>
                         LET sid == e.Chats[i].SessionID
                         IN /\ e.Chats[i].Archived # e.Chats[j].Archived
                            /\ \/ Both(pre, sid)
                               \/ Exists(pre, Source(sid)) # Exists(fs, Source(sid))
                               \/ Exists(pre, Dest(sid)) # Exists(fs, Dest(sid))]_vars

\* Session "a" had an active log only when ExportAll began and has an
\* archived log only now (the rename ran between the two loads); the
\* written export counts one active and one archived chat, both for "a",
\* with the same records.
C12_Witness ==
    /\ ret.op = "ExportAll"
    /\ ret.err = "nil"
    /\ \E sid \in ValidSessionIDs, f \in DOMAIN outFiles :
          /\ Exists(ret.pre, Source(sid)) /\ ~Exists(ret.pre, Dest(sid))
          /\ ~Exists(fs, Source(sid)) /\ Exists(fs, Dest(sid))
          /\ fs[Dest(sid)] = ret.pre[Source(sid)]
          /\ outFiles[f].ActiveChats = 1
          /\ outFiles[f].ArchivedChats = 1
          /\ Len(outFiles[f].Chats) = 2
          /\ outFiles[f].Chats[1].SessionID = outFiles[f].Chats[2].SessionID
          /\ outFiles[f].Chats[1].Archived # outFiles[f].Chats[2].Archived
          /\ outFiles[f].Chats[1].Messages = outFiles[f].Chats[2].Messages
          /\ Len(outFiles[f].Chats[1].Messages) = 1

\* C13 (as stated, for the interleaving it rests on): when a session that
\* had an active log as ExportAll began is archived before the active load
\* lists its directory, so that the active corpus misses it, the
\* successfully written export has no Chat for it at all.
C13_InNeitherCorpus ==
    [][\A p \in Procs :
          (pc[p] = "ex_write" /\ pc'[p] = "idle" /\ ret'.err = "nil") =>
             LET e == outFiles'[OutputFile(loc[p].outputPath)]
             IN \A q \in LogsIn(loc[p].pre, FALSE) :
                   LET sid == TrimSuffix(BaseName(q), Suffix)
                   IN (\A i \in 1..Len(e.Chats) :
                          e.Chats[i].SessionID = sid => e.Chats[i].Archived)
                      => \A i \in 1..Len(e.Chats) : e.Chats[i].SessionID # sid]_vars

\* C13 (amended): a session that had a log, active or archived, as
\* ExportAll began has at least one Chat in every successfully written
\* export, whatever RecordMessage and ArchiveSession calls run beside it.
C13_InSomeCorpus ==
    [][\A p \in Procs :
          (pc[p] = "ex_write" /\ pc'[p] = "idle" /\ ret'.err = "nil") =>
             LET e == outFiles'[OutputFile(loc[p].outputPath)]
             IN \A q \in DOMAIN loc[p].pre :
                   \E i \in 1..Len(e.Chats) :
                      e.Chats[i].SessionID = TrimSuffix(BaseName(q), Suffix)]_vars

\* Session "a" had an active log when ExportAll began and was archived
\* before the active load listed its directory: the written export misses
\* it in the active corpus and has it in the archived one.
C13_Witness ==
    /\ ret.op = "ExportAll"
    /\ ret.err = "nil"
    /\ \E sid \in ValidSessionIDs, f \in DOMAIN outFiles :
          /\ Exists(ret.pre, Source(sid)) /\ ~Exists(ret.pre, Dest(sid))
          /\ ~Exists(fs, Source(sid)) /\ Exists(fs, Dest(sid))
          /\ outFiles[f].ActiveChats = 0
          /\ outFiles[f].ArchivedChats = 1
          /\ Len(outFiles[f].Chats) = 1
          /\ outFiles[f].Chats[1].Archived
          /\ outFiles[f].Chats[1].SessionID = TrimSuffix(BaseName(Dest(sid)), Suffix)
          /\ outFiles[f].Chats[1].Messages = readMessages(ret.pre[Source(sid)]).messages
          /\ Len(outFiles[f].Chats[1].Messages) = 1

\* C14: on a configured store RecordMessage with an empty session identifier
\* returns the error "session id is required" at once: no file or directory
\* is created or changed, the lock is not touched, and no such call ever
\* goes on to the lock or the file.
C14_EmptySessionIDRejected ==
    [][store # Nil =>
         /\ (ReturnsAtOnce("RecordMessage") /\ ret'.sessionID = <<>>) =>
               /\ ret'.err = "session id is required"
               /\ fs' = fs /\ dirs' = dirs /\ mu' = mu
         /\ \A p \in Procs :
               ~(loc'[p].op = "RecordMessage" /\ loc'[p].sessionID = <<>>)]_vars

\* RecordMessage("") has been refused on a store that holds a log, while
\* another caller holds the lock in the middle of its own write: the files
\* are as the call found them and the lock is still that caller's.
C14_Witness ==
    /\ store # Nil
    /\ ret.op = "RecordMessage"
    /\ ret.sessionID = <<>>
    /\ ret.err = "session id is required"
    /\ fs = ret.pre
    /\ \E q \in DOMAIN fs : Len(fs[q]) >= RecordLen
    /\ \E p \in Procs : mu = p /\ pc[p] = "rm_write"

\* C15: a store constructed with a blank root is the disabled store, and on
\* it every RecordMessage and ArchiveSession call returns nil at once and no
\* file or directory ever exists; a configured store has a root that is not
\* blank.
C15_DisabledStore ==
    /\ store # Nil => ~Blank(store.rootDir)
    /\ store = Nil =>
          /\ fs = <<>> /\ dirs = {}
          /\ mu = 0
          /\ \A p \in Procs : pc[p] = "idle"
          /\ ret.err = "nil"

\* On the disabled store a RecordMessage with an empty session identifier
\* has returned nil, after other calls.
C15_Witness ==
    /\ store = Nil
    /\ ret.op = "RecordMessage"
    /\ ret.sessionID = <<>>
    /\ ret.err = "nil"
    /\ callsLeft = 0

\* The number of records (newline-terminated lines) in a log's content.
Terminated(content) == Cardinality({i \in 1..Len(content) : content[i] = NL})

\* C19: a RecordMessage that returns an error from its open or write leaves
\* every log that existed before the call in place, with the bytes it had
\* as a prefix of its bytes now (only the call's own log can have grown, by
\* part of the new record); every record of its log, that is every line a
\* newline ended before the call, is the same line at the same place after
\* it; and the lock is released.
C19_FailedRecordKeepsLogs ==
    [][\A p \in Procs :
          (Returns(p, "RecordMessage") /\ ret'.err # "nil") =>
             LET pre == loc[p].pre
                 path == Source(loc[p].sessionID)
                 old == ScanLines(LogOf(pre, path), <<>>)
                 lines == ScanLines(LogOf(fs', path), <<>>)
             IN /\ \A q \in DOMAIN pre :
                      /\ Exists(fs', q)
                      /\ IsPrefix(pre[q], fs'[q])
                      /\ q # path => fs'[q] = pre[q]
                /\ Len(lines) >= Terminated(LogOf(pre, path))
                /\ \A i \in 1..Terminated(LogOf(pre, path)) : lines[i] = old[i]
                /\ mu = p /\ mu' = 0]_vars

\* A RecordMessage has failed in the middle of its write to a log that held
\* a record: the log is longer than it was, and the lock is free.
C19_Witness ==
    /\ store # Nil
    /\ ret.op = "RecordMessage"
    /\ ret.err = "unable to flush chat message"
    /\ Len(LogOf(ret.pre, Source(ret.sessionID))) >= RecordLen
    /\ Len(LogOf(fs, Source(ret.sessionID))) >
          Len(LogOf(ret.pre, Source(ret.sessionID)))
    /\ mu = 0

\* C16: ExportAll on the disabled store, or with a blank destination path,
\* returns its error at once, writing no file and creating no directory;
\* no ExportAll goes on to read a directory on a disabled store or with a
\* blank destination.
C16_ExportPreconditions ==
    [][/\ ReturnsAtOnce("ExportAll") =>
             /\ ret'.err = IF store = Nil THEN "chat storage is not configured"
                           ELSE "output path is required"
             /\ outFiles' = outFiles /\ outDirs' = outDirs
       /\ \A p \in Procs :
             loc'[p].op = "ExportAll" =>
                (store # Nil /\ ~Blank(loc'[p].outputPath))
       /\ store = Nil => (outFiles' = <<>> /\ outDirs' = {})]_vars

\* ExportAll has been refused for its blank destination on a configured
\* store that holds a record; nothing was written.
C16_Witness ==
    /\ store # Nil
    /\ ret.op = "ExportAll"
    /\ ret.err = "output path is required"
    /\ \E q \in DOMAIN fs : Len(fs[q]) >= RecordLen
    /\ outFiles = <<>>
    /\ outDirs = {}

\* C17: when the log ExportAll is about to read holds a line that does not
\* parse, ExportAll's next step returns the decode error (and no chats),
\* writing no file and creating no directory, whatever the other logs hold.
C17_MalformedIsFatal ==
    [][\A p \in Procs :
          LET dir == statusDir(store.rootDir, loc[p].archived)
              path == Join(dir, Head(loc[p].entries))
          IN (/\ pc[p] = "ex_entry"
              /\ ~loc[p].cancelled
              /\ Exists(fs, path)
              /\ Malformed(fs[path])
              /\ loc'[p] # loc[p]) =>
                 /\ pc'[p] = "idle"
                 /\ ret'.op = "ExportAll"
                 /\ ret'.err = "unable to decode chat message"
                 /\ outFiles' = outFiles
                 /\ outDirs' = outDirs]_vars

\* ExportAll has failed on a malformed line (a record another caller is
\* still writing) while another log of the store is well formed; no export
\* was written.
C17_Witness ==
    /\ store # Nil
    /\ ret.op = "ExportAll"
    /\ ret.err = "unable to decode chat message"
    /\ outFiles = <<>>
    /\ \E q \in DOMAIN ret.pre :
          /\ ~Malformed(ret.pre[q])
          /\ Len(ret.pre[q]) >= RecordLen
          /\ Exists(fs, q)
          /\ fs[q] = ret.pre[q]
    /\ \E q \in DOMAIN fs : Malformed(fs[q])

\* C18 (as stated): on a configured store a RecordMessage with a non-empty
\* session identifier succeeds and appends its record to the session's
\* active log, also when the active directory does not exist.
C18_CreatesMissingDirectory ==
    [][\A p \in Procs :
          (Returns(p, "RecordMessage") /\ faultsLeft' = faultsLeft) =>
             /\ ret'.err = "nil"
             /\ Exists(fs', Source(loc[p].sessionID))
             /\ fs'[Source(loc[p].sessionID)] =
                   LogOf(loc[p].pre, Source(loc[p].sessionID))
                      \o MarshalMessage(loc[p].message)]_vars

\* C20: for every identifier a RecordMessage call is made with, the
\* sanitized token has as many characters as the identifier, keeps each
\* allowed character where it is, has '_' in place of every other one,
\* holds allowed characters only and sanitizes to itself; the log the call
\* opens is named by that token.
C20_Sanitizer ==
    \A p \in Procs :
        loc[p].op = "RecordMessage" =>
           LET in == loc[p].sessionID
               out == sanitizeSessionID(in)
           IN /\ Len(out) = Len(in)
              /\ \A i \in 1..Len(in) :
                    /\ out[i] = IF in[i] \in AllowedChars THEN in[i] ELSE 95
                    /\ out[i] \in AllowedChars
              /\ sanitizeSessionID(out) = out
              /\ pc[p] = "rm_write" =>
                    \E q \in DOMAIN fs : BaseName(q) = out \o Suffix

\* A call for the identifier ":." is writing to the log "_..jsonl".
C20_Witness ==
    \E p \in Procs :
        /\ pc[p] = "rm_write"
        /\ loc[p].sessionID = <<58, 46>>
        /\ DOMAIN fs = {Join(statusDir(store.rootDir, FALSE), <<95, 46>> \o Suffix)}

\* C21: for every session identifier and either status the resolved log
\* path is a file directly inside root/active (status active) or
\* root/archived (status archived), as is the path of every call under way,
\* and every file RecordMessage and ArchiveSession have created or moved
\* is directly inside one of the two directories.
C21_NoEscape ==
    store # Nil =>
       /\ \A sid \in PathSessionIDs, archived \in BOOLEAN :
             /\ DirectChild(sessionPath(store, sid, archived))
             /\ sessionPath(store, sid, archived)[2] =
                   IF archived THEN ArchivedName ELSE ActiveName
       /\ \A p \in Procs :
             loc[p].op \in {"RecordMessage", "ArchiveSession"} =>
                /\ DirectChild(sessionPath(store, loc[p].sessionID, FALSE))
                /\ DirectChild(sessionPath(store, loc[p].sessionID, TRUE))
       /\ \A q \in DOMAIN fs : DirectChild(q)

\* The log recorded for the identifier "../" has been archived: the store's
\* one file is root/archived/.._.jsonl.
C21_Witness ==
    /\ store # Nil
    /\ ret.op = "ArchiveSession"
    /\ ret.sessionID = <<46, 46, 47>>
    /\ ret.err = "nil"
    /\ DOMAIN fs = {<<store.rootDir, ArchivedName, <<46, 46, 95>> \o Suffix>>}
    /\ \A q \in DOMAIN fs : Len(fs[q]) = RecordLen

\* C22: identifiers with one token are one session.  A RecordMessage for
\* one of them that returns nil has appended its record to the one active
\* log of the token; a successful ArchiveSession for one of them leaves no
\* active log of the token and the archived log holding what both logs
\* held; and an export of an unchanging store has one Chat per log of the
\* token, holding all the log's records whatever identifier they carry.
C22_CollidingIdentifiers ==
    [][store # Nil =>
         \A p \in Procs :
            LET sid == loc[p].sessionID
                pre == loc[p].pre
                active == LogPath(sid, FALSE)
                archived == LogPath(sid, TRUE)
            IN /\ (Returns(p, "RecordMessage") /\ ret'.err = "nil") =>
                     /\ Exists(fs', active)
                     /\ fs'[active] =
                           LogOf(pre, active) \o MarshalMessage(loc[p].message)
               /\ (Returns(p, "ArchiveSession") /\ ret'.err = "nil") =>
                     /\ ~Exists(fs', active)
                     /\ LogOf(fs', archived) =
                           LogOf(pre, archived) \o LogOf(pre, active)
               /\ (pc[p] = "ex_write" /\ pc'[p] = "idle" /\ ret'.err = "nil"
                      /\ pre = fs) =>
                     LET e == outFiles'[OutputFile(loc[p].outputPath)]
                     IN \A other \in ValidSessionIDs, a \in BOOLEAN :
                           Exists(fs, LogPath(other, a)) =>
                              Cardinality(
                                 {i \in 1..Len(e.Chats) :
                                     /\ e.Chats[i].SessionID = TokenOf(other)
                                     /\ e.Chats[i].Archived = a
                                     /\ e.Chats[i].Messages =
                                           readMessages(fs[LogPath(other, a)]).messages})
                                 = 1]_vars

\* Records were written under "/" and under "_" and archived: the export
\* holds one Chat, "_", archived, with the two records, the one recorded
\* under "/" first.
C22_Witness ==
    /\ store # Nil
    /\ ret.op = "ExportAll"
    /\ ret.err = "nil"
    /\ ret.pre = fs
    /\ \E f \in DOMAIN outFiles :
          /\ Len(outFiles[f].Chats) = 1
          /\ outFiles[f].Chats[1].SessionID = <<95>>
          /\ outFiles[f].Chats[1].Archived
          /\ Len(outFiles[f].Chats[1].Messages) = 2
          /\ outFiles[f].Chats[1].Messages[1].SessionID = <<47>>
          /\ outFiles[f].Chats[1].Messages[2].SessionID = <<95>>
          /\ outFiles[f].Chats[1].Messages[1].Timestamp <
                outFiles[f].Chats[1].Messages[2].Timestamp

\* C23: on a configured store ArchiveSession with an empty session
\* identifier returns nil at once: no file or directory is created or
\* changed, the lock is not touched, and no such call ever goes on to take
\* the lock.
C23_EmptySessionIDNoOp ==
    [][store # Nil =>
         /\ (ReturnsAtOnce("ArchiveSession") /\ ret'.sessionID = <<>>) =>
               /\ ret'.err = "nil"
               /\ fs' = fs /\ dirs' = dirs /\ mu' = mu
         /\ \A p \in Procs :
               ~(loc'[p].op = "ArchiveSession" /\ loc'[p].sessionID = <<>>)]_vars

\* ArchiveSession("") has returned nil on a store that holds a log, while
\* another caller holds the lock in the middle of its write.
C23_Witness ==
    /\ store # Nil
    /\ ret.op = "ArchiveSession"
    /\ ret.sessionID = <<>>
    /\ ret.err = "nil"
    /\ fs = ret.pre
    /\ \E q \in DOMAIN fs : Len(fs[q]) >= RecordLen
    /\ \E p \in Procs : mu = p /\ pc[p] = "rm_write"

\* C24: a load of a status directory that does not exist is not an error:
\* it yields no chats, and ExportAll goes on (to the archived load after
\* the active one, to the export with a count of 0 for the archived corpus
\* after the archived one); an ExportAll on a store that holds no log
\* writes an export with both counts 0 and no chats, directories or not.
C24_MissingDirectoryIsEmpty ==
    [][\A p \in Procs :
          /\ (/\ pc[p] = "ex_readdir"
              /\ statusDir(store.rootDir, loc[p].archived) \notin dirs
              /\ loc'[p] # loc[p]) =>
                IF loc[p].archived
                THEN /\ pc'[p] = "ex_mkdir"
                     /\ loc'[p].export.ArchivedChats = 0
                     /\ loc'[p].export.ActiveChats = Len(loc[p].activeChats)
                     /\ loc'[p].export.Chats \in sortSlice(loc[p].activeChats)
                ELSE /\ pc'[p] = "ex_readdir"
                     /\ loc'[p].archived
                     /\ loc'[p].activeChats = <<>>
          /\ (Returns(p, "ExportAll") /\ loc[p].pre = <<>> /\ fs = <<>>) =>
                /\ ret'.err = "nil"
                /\ LET e == outFiles'[OutputFile(loc[p].outputPath)]
                   IN /\ e.ActiveChats = 0
                      /\ e.ArchivedChats = 0
                      /\ e.Chats = <<>>]_vars

\* ExportAll has succeeded on a configured store both of whose status
\* directories are gone: the export counts 0 and 0 and has no chats.
C24_Witness ==
    /\ store # Nil
    /\ dirs = {}
    /\ ret.op = "ExportAll"
    /\ ret.err = "nil"
    /\ callsLeft = MaxLoadCalls - 1
    /\ \E f \in DOMAIN outFiles :
          /\ outFiles[f].ActiveChats = 0
          /\ outFiles[f].ArchivedChats = 0
          /\ outFiles[f].Chats = <<>>

C26_LockReleasedNoStarvation ==
    /\ [](mu = 0 \/ pc[mu] \in CriticalSection)
    /\ [](\A p \in Procs : pc[p] \in CriticalSection => mu = p)
    /\ \A p \in Procs : (pc[p] # "idle") ~> (pc[p] = "idle")

\* A call has returned an error after an I/O failure, the lock is free, and
\* another caller is waiting to take it.
C26_Witness ==
    /\ store # Nil
    /\ ret.err \notin {"nil", "session id is required"}
    /\ faultsLeft < MaxFaults
    /\ mu = 0
    /\ \E p \in Procs : pc[p] \in {"rm_lock", "ar_lock"}

\* One session recorded, archived, recorded again, archived with a failure
\* and archived once more: five calls.
MaxRetryCalls == 5

InitRetry == InitWith(MaxRetryCalls, 0, MaxFaults)

NextRetry == \E p \in Procs : FairCall(p) \/ MutatorStep(p) \/ MutatorFault(p)

SpecRetry == InitRetry /\ [][NextRetry]_vars

(* C27: if ArchiveSession of a session fails at some step and the next call
   to return is a retry of it that succeeds (no RecordMessage returned in
   between), then after the retry the session has no active log and its
   archived log holds every record recorded for it exactly once, in write
   order. *)
C27_FailedArchiveRecoverable ==
    [][\A p \in Procs :
          (/\ ret.op = "ArchiveSession"
           /\ ret.err # "nil"
           /\ Returns(p, "ArchiveSession")
           /\ ret'.err = "nil"
           /\ ret.sessionID = loc[p].sessionID)
          => /\ ~Exists(fs', Source(loc[p].sessionID))
             /\ LogOf(fs', Dest(loc[p].sessionID))
                  = Serialized(HistOf(hist', BaseName(Source(loc[p].sessionID))))]_vars

(* C28: with no I/O faults and no cancellation, an ExportAll that runs beside
   RecordMessage and ArchiveSession calls returns without error, an
   ArchiveSession that moves a log between the listing and the read
   included.  A log caught with a record half written is not well formed and
   is left aside: its decode error is allowed here. *)
C28_ConcurrentExportSucceeds ==
    [][\A p \in Procs :
          (Returns(p, "ExportAll") /\ ~loc[p].cancelled)
          => ret'.err \in {"nil", "unable to decode chat message"}]_vars

(* C29: as long as no I/O operation has failed, the timestamps in every log
   are non-decreasing in line order, also when RecordMessage calls for one
   session run concurrently. *)
C29_AppendOrderChronological ==
    NoFaultSoFar =>
        \A q \in DOMAIN fs :
            \A i, j \in 1..Len(fs[q]) :
                (i < j /\ fs[q][i].part = "tail" /\ fs[q][j].part = "tail")
                => fs[q][i].timestamp <= fs[q][j].timestamp

\* The logs a call of caller p may touch: RecordMessage its session's active
\* log, ArchiveSession its session's active and archived logs, ExportAll none.
OwnLogs(p) ==
    IF loc[p].op = "RecordMessage" THEN {LogPath(loc[p].sessionID, FALSE)}
    ELSE IF loc[p].op = "ArchiveSession"
         THEN {LogPath(loc[p].sessionID, FALSE), LogPath(loc[p].sessionID, TRUE)}
    ELSE {}

\* Caller p takes this step.
StepOf(p) == pc'[p] # pc[p] \/ loc'[p] # loc[p]

(* C30: every step that changes the session logs is a step of a RecordMessage
   or ArchiveSession call, and it leaves as they were (present or absent,
   byte for byte) the logs of every session whose token differs from that of
   the call's session; a RecordMessage step leaves every archived log as it
   was, and a step of ExportAll leaves every session log as it was. *)
C30_CrossSessionIndependence ==
    [][fs' # fs =>
          \E p \in Procs :
              /\ StepOf(p)
              /\ loc[p].op \in {"RecordMessage", "ArchiveSession"}
              /\ \A q \in (DOMAIN fs \cup DOMAIN fs') \ OwnLogs(p) :
                    /\ Exists(fs, q) <=> Exists(fs', q)
                    /\ LogOf(fs, q) = LogOf(fs', q)]_vars

\* ArchiveSession("a") has moved a's log to the archive after an export was
\* written, and the log of session "_" is as the call found it.
C30_Witness ==
    /\ ret.op = "ArchiveSession"
    /\ ret.sessionID = <<97>>
    /\ ret.err = "nil"
    /\ outFiles # <<>>
    /\ Exists(fs, LogPath(<<97>>, TRUE))
    /\ ~Exists(ret.pre, LogPath(<<97>>, TRUE))
    /\ LogOf(fs, LogPath(<<95>>, FALSE)) # <<>>
    /\ LogOf(fs, LogPath(<<95>>, FALSE)) = LogOf(ret.pre, LogPath(<<95>>, FALSE))

====
